---- MODULE Spec2Model ----
(***************************************************************************)
(* Supertrend signal engine and the Bitcoin Supertrend trade controller.   *)
(*                                                                         *)
(* Prices are integers (ticks).  Python floats are modelled as exact       *)
(* rationals <<numerator, denominator>> kept in lowest terms, so that the  *)
(* comparisons the code makes between bands and closes are decided as the  *)
(* real-number arithmetic decides them.  None is <<0, 0>>.                 *)
(***************************************************************************)
EXTENDS Integers, Sequences, FiniteSets, TLC

VARIABLES
    ind,            \* the library indicator driven directly
    before,         \* ind as it was before the last call on it
    feed,           \* progress of a scripted bar feed
    algo,           \* the fields of BitcoinSupertrendStrategy
    portfolio,      \* cash, holdings and last price of the account
    time,           \* the algorithm's clock, in minutes
    is_warming_up,  \* the engine's warm-up flag
    obs             \* what the last on_data call did

vars == <<ind, before, feed, algo, portfolio, time, is_warming_up, obs>>

-----------------------------------------------------------------------------
(* Bounds of the model *)

\* number of update calls explored after construction or reset
MaxBars == 6

\* number of on_data calls explored
MaxData == 4

\* number of on_error calls that change the strategy
MaxErrors == 1

\* number of ten-hour gaps in the feed
MaxGaps == 3

-----------------------------------------------------------------------------
(* Float arithmetic as exact rationals *)

None == <<0, 0>>

IsNone(x) == x[2] = 0

Abs(n) == IF n < 0 THEN -n ELSE n

RECURSIVE GCD(_, _)
GCD(a, b) == IF b = 0 THEN a ELSE GCD(b, a % b)

LCM(a, b) == (a \div GCD(a, b)) * b

Norm(n, d) == LET g == GCD(Abs(n), d) IN <<n \div g, d \div g>>

R(n) == <<n, 1>>

RAdd(a, b) == LET l == LCM(a[2], b[2])
              IN  Norm(a[1] * (l \div a[2]) + b[1] * (l \div b[2]), l)

RNeg(a) == <<-a[1], a[2]>>

RSub(a, b) == RAdd(a, RNeg(b))

RMul(a, b) == LET g1 == GCD(Abs(a[1]), b[2])
                  g2 == GCD(Abs(b[1]), a[2])
              IN  IF a[1] = 0 \/ b[1] = 0 THEN R(0)
                  ELSE <<(a[1] \div g1) * (b[1] \div g2), (a[2] \div g2) * (b[2] \div g1)>>

\* a / b for b # 0
RDiv(a, b) == IF b[1] > 0 THEN RMul(a, <<b[2], b[1]>>)
              ELSE RMul(a, <<-b[2], -b[1]>>)

RLt(a, b) == LET l == LCM(a[2], b[2])
             IN  a[1] * (l \div a[2]) < b[1] * (l \div b[2])

RLeq(a, b) == ~RLt(b, a)

RAbs(a) == <<Abs(a[1]), a[2]>>

RMax(a, b) == IF RLt(a, b) THEN b ELSE a

RMin(a, b) == IF RLt(b, a) THEN b ELSE a

RECURSIVE RSum(_)
RSum(s) == IF s = <<>> THEN R(0) ELSE RAdd(Head(s), RSum(Tail(s)))

\* np.mean of a non-empty list
Mean(s) == RDiv(RSum(s), R(Len(s)))

\* deque(maxlen = n).append(x)
DequeAppend(s, x, n) == IF n = 0 THEN <<>>
                        ELSE IF Len(s) >= n THEN Append(Tail(s), x)
                        ELSE Append(s, x)

-----------------------------------------------------------------------------
(* SuperTrendIndicator of the indicator library *)

SuperTrendIndicator(period, multiplier) ==
    [ period           |-> period,
      multiplier       |-> multiplier,
      atr_values       |-> <<>>,
      prev_atr         |-> None,
      final_upper_band |-> None,
      final_lower_band |-> None,
      supertrend       |-> None,
      signal           |-> 0,
      prev_signal      |-> 0,
      is_ready         |-> FALSE,
      bar_count        |-> 0,
      prev_close       |-> None,
      returns_history  |-> <<>> ]

calculate_true_range(high, low, prev_close) ==
    IF IsNone(prev_close) THEN RSub(high, low)
    ELSE RMax(RSub(high, low),
              RMax(RAbs(RSub(high, prev_close)), RAbs(RSub(low, prev_close))))

\* the indicator after the call, and the value returned
calculate_atr(self, tr) ==
    LET vals == DequeAppend(self.atr_values, tr, self.period)
    IN  IF Len(vals) < self.period
        THEN [self |-> [self EXCEPT !.atr_values = vals], atr |-> Mean(vals)]
        ELSE LET prev == IF IsNone(self.prev_atr) THEN Mean(vals) ELSE self.prev_atr
                 current_atr == RDiv(RAdd(RMul(prev, R(self.period - 1)), tr),
                                     R(self.period))
             IN  [self |-> [self EXCEPT !.atr_values = vals, !.prev_atr = current_atr],
                  atr  |-> current_atr]

\* the bands without the continuity constraint: always the basic bands
final_bands_basic(self, basic_upper, basic_lower, close) ==
    [upper |-> basic_upper, lower |-> basic_lower]

\* the upper band that stays where it is when the close is above it
final_bands_sticky(self, basic_upper, basic_lower, close) ==
    IF IsNone(self.final_upper_band)
    THEN [upper |-> basic_upper, lower |-> basic_lower]
    ELSE [upper |-> IF RLt(basic_upper, self.final_upper_band)
                    THEN basic_upper ELSE self.final_upper_band,
          lower |-> IF RLt(self.final_lower_band, basic_lower)
                       \/ RLt(close, self.final_lower_band)
                    THEN basic_lower ELSE self.final_lower_band]

\* lines 142-155: the final bands with the continuity constraint
final_bands(self, basic_upper, basic_lower, close) ==
    IF IsNone(self.final_upper_band)
    THEN [upper |-> basic_upper, lower |-> basic_lower]
    ELSE [upper |-> IF RLt(basic_upper, self.final_upper_band)
                       \/ RLt(self.final_upper_band, close)
                    THEN basic_upper ELSE self.final_upper_band,
          lower |-> IF RLt(self.final_lower_band, basic_lower)
                       \/ RLt(close, self.final_lower_band)
                    THEN basic_lower ELSE self.final_lower_band]

\* the trend level is the lower band whatever the signal
trend_signal_lower_band(close, bands) ==
    IF RLeq(close, bands.upper)
    THEN [supertrend |-> bands.lower, signal |-> -1]
    ELSE [supertrend |-> bands.lower, signal |-> 1]

\* lines 157-165: the active band and the signal
trend_signal(close, bands) ==
    IF RLeq(close, bands.upper)
    THEN [supertrend |-> bands.upper, signal |-> -1]
    ELSE [supertrend |-> bands.lower, signal |-> 1]

\* ready after one period instead of two
ready_flag_one_period(self, bar_count) ==
    IF bar_count >= self.period THEN TRUE ELSE self.is_ready

\* lines 167-169: ready after sufficient warmup data
ready_flag(self, bar_count) ==
    IF bar_count >= self.period * 2 THEN TRUE ELSE self.is_ready

\* the update that ignores a bar with low > high
update_validating(self0, high, low, close) ==
    IF RLt(high, low) THEN self0
    ELSE LET tr          == calculate_true_range(high, low, self0.prev_close)
             r           == calculate_atr(self0, tr)
             self        == r.self
             atr         == r.atr
             hl_midpoint == RDiv(RAdd(high, low), R(2))
             basic_upper == RAdd(hl_midpoint, RMul(self.multiplier, atr))
             basic_lower == RSub(hl_midpoint, RMul(self.multiplier, atr))
             bands       == final_bands(self, basic_upper, basic_lower, close)
             trend       == trend_signal(close, bands)
             bar_count   == self.bar_count + 1
         IN  [self EXCEPT
                 !.bar_count        = bar_count,
                 !.final_upper_band = bands.upper,
                 !.final_lower_band = bands.lower,
                 !.prev_signal      = self.signal,
                 !.supertrend       = trend.supertrend,
                 !.signal           = trend.signal,
                 !.is_ready         = ready_flag(self, bar_count),
                 !.prev_close       = close]

update(self0, high, low, close) ==
    LET tr          == calculate_true_range(high, low, self0.prev_close)
        r           == calculate_atr(self0, tr)
        self        == r.self
        atr         == r.atr
        hl_midpoint == RDiv(RAdd(high, low), R(2))
        basic_upper == RAdd(hl_midpoint, RMul(self.multiplier, atr))
        basic_lower == RSub(hl_midpoint, RMul(self.multiplier, atr))
        bands       == final_bands(self, basic_upper, basic_lower, close)
        trend       == trend_signal(close, bands)
        bar_count   == self.bar_count + 1
    IN  [self EXCEPT
            !.bar_count        = bar_count,
            !.final_upper_band = bands.upper,
            !.final_lower_band = bands.lower,
            !.prev_signal      = self.signal,
            !.supertrend       = trend.supertrend,
            !.signal           = trend.signal,
            !.is_ready         = ready_flag(self, bar_count),
            !.prev_close       = close,
            !.returns_history  =
                IF close[1] # 0
                THEN DequeAppend(self.returns_history,
                                 RSub(RDiv(close, close), R(1)), self.period * 4)
                ELSE self.returns_history]

\* line 178: the pair returned by update
update_return(self) == <<self.supertrend, self.signal>>

get_current_supertrend(self) == IF self.is_ready THEN self.supertrend ELSE None

\* the stored signal, ready or not
get_current_signal_stored(self) == self.signal

get_current_signal(self) == IF self.is_ready THEN self.signal ELSE 0

get_volatility_measure(self) == IF self.is_ready THEN self.prev_atr ELSE None

\* level-triggered: true on every ready bar of an uptrend
is_buy_signal_level(self) == self.signal = 1 /\ self.is_ready

is_buy_signal(self) == self.signal = 1 /\ self.prev_signal = -1 /\ self.is_ready

is_sell_signal(self) == self.signal = -1 /\ self.prev_signal = 1 /\ self.is_ready

\* the reset that keeps the smoothed ATR
reset_keep_atr(self) ==
    [self EXCEPT
        !.final_upper_band = None,
        !.final_lower_band = None,
        !.supertrend       = None,
        !.signal           = 0,
        !.prev_signal      = 0,
        !.is_ready         = FALSE,
        !.bar_count        = 0,
        !.prev_close       = None,
        !.atr_values       = <<>>,
        !.returns_history  = <<>>]

reset(self) ==
    [self EXCEPT
        !.final_upper_band = None,
        !.final_lower_band = None,
        !.supertrend       = None,
        !.signal           = 0,
        !.prev_signal      = 0,
        !.is_ready         = FALSE,
        !.bar_count        = 0,
        !.prev_close       = None,
        !.atr_values       = <<>>,
        !.returns_history  = <<>>,
        !.prev_atr         = None]

-----------------------------------------------------------------------------
(* SuperTrendIndicator as embedded in the strategy file *)

Main_SuperTrendIndicator(period, multiplier) ==
    [ period           |-> period,
      multiplier       |-> multiplier,
      atr_values       |-> <<>>,
      final_upper_band |-> None,
      final_lower_band |-> None,
      supertrend       |-> None,
      signal           |-> 0,
      prev_signal      |-> 0,
      is_ready         |-> FALSE,
      bar_count        |-> 0,
      prev_close       |-> None,
      prev_atr         |-> None ]

Main_calculate_true_range(high, low, prev_close) ==
    IF IsNone(prev_close) THEN RSub(high, low)
    ELSE RMax(RSub(high, low),
              RMax(RAbs(RSub(high, prev_close)), RAbs(RSub(low, prev_close))))

Main_calculate_atr(self, tr) ==
    LET vals == DequeAppend(self.atr_values, tr, self.period)
    IN  IF Len(vals) < self.period
        THEN [self |-> [self EXCEPT !.atr_values = vals], atr |-> Mean(vals)]
        ELSE LET prev == IF IsNone(self.prev_atr) THEN Mean(vals) ELSE self.prev_atr
                 current_atr == RDiv(RAdd(RMul(prev, R(self.period - 1)), tr),
                                     R(self.period))
             IN  [self |-> [self EXCEPT !.atr_values = vals, !.prev_atr = current_atr],
                  atr  |-> current_atr]

\* lines 631-640: the final bands with the continuity constraint
Main_final_bands(self, basic_upper, basic_lower, close) ==
    IF IsNone(self.final_upper_band)
    THEN [upper |-> basic_upper, lower |-> basic_lower]
    ELSE [upper |-> IF RLt(basic_upper, self.final_upper_band)
                       \/ RLt(self.final_upper_band, close)
                    THEN basic_upper ELSE self.final_upper_band,
          lower |-> IF RLt(self.final_lower_band, basic_lower)
                       \/ RLt(close, self.final_lower_band)
                    THEN basic_lower ELSE self.final_lower_band]

\* the signal that is up when the close is on the upper band
Main_trend_signal_strict(close, bands) ==
    IF RLt(close, bands.upper)
    THEN [supertrend |-> bands.upper, signal |-> -1]
    ELSE [supertrend |-> bands.lower, signal |-> 1]

\* lines 642-650: the active band and the signal
Main_trend_signal(close, bands) ==
    IF RLeq(close, bands.upper)
    THEN [supertrend |-> bands.upper, signal |-> -1]
    ELSE [supertrend |-> bands.lower, signal |-> 1]

Main_update(self0, high, low, close) ==
    LET Store(self, bands, trend, bar_count) ==
            [self EXCEPT
                !.bar_count        = bar_count,
                !.final_upper_band = bands.upper,
                !.final_lower_band = bands.lower,
                !.prev_signal      = self.signal,
                !.supertrend       = trend.supertrend,
                !.signal           = trend.signal,
                !.is_ready         = IF bar_count >= self.period * 2 THEN TRUE
                                     ELSE self.is_ready,
                !.prev_close       = close]
        Signal(self, bands) ==
            Store(self, bands, Main_trend_signal(close, bands), self.bar_count + 1)
        Bands(self, hl_midpoint, width) ==
            Signal(self, Main_final_bands(self, RAdd(hl_midpoint, width),
                                          RSub(hl_midpoint, width), close))
        WithAtr(r) ==
            Bands(r.self, RDiv(RAdd(high, low), R(2)),
                  RMul(r.self.multiplier, r.atr))
    IN  WithAtr(Main_calculate_atr(
                    self0, Main_calculate_true_range(high, low, self0.prev_close)))

Main_get_current_supertrend(self) == IF self.is_ready THEN self.supertrend ELSE None

Main_is_buy_signal(self) == self.signal = 1 /\ self.prev_signal = -1 /\ self.is_ready

Main_is_sell_signal(self) == self.signal = -1 /\ self.prev_signal = 1 /\ self.is_ready

-----------------------------------------------------------------------------
(* BitcoinSupertrendStrategy.  Times are minutes since the start date; an  *)
(* optional time or date is <<>> (None) or <<t>>.  A handler takes and     *)
(* returns w = [self, portfolio, obs]: the algorithm's fields, the account *)
(* kept by the engine, and a record of what the current on_data call did.  *)
(* The append-only logs equity_curve and drawdowns are not kept.           *)

NoneT == <<>>

\* Python truth value of an optional float: neither None nor 0.0
Truthy(x) == ~IsNone(x) /\ x[1] # 0

\* strategy parameters (GetParameter) and the starting capital
Config == [ atr_period         |-> 1,
            multiplier         |-> <<1, 4>>,
            risk_per_trade     |-> <<1, 50>>,
            max_position_size  |-> <<1, 10>>,
            max_daily_trades   |-> 2,
            min_trade_interval |-> 8,
            cash               |-> 100000 ]

\* portfolio.total_portfolio_value: cash plus holdings at the last price
total_portfolio_value(pf) == RAdd(pf.cash, RMul(pf.quantity, R(pf.price)))

\* portfolio[symbol].is_long
is_long(pf) == pf.quantity[1] > 0

initialize(pf) ==
    [ atr_period          |-> Config.atr_period,
      multiplier          |-> Config.multiplier,
      risk_per_trade      |-> Config.risk_per_trade,
      max_position_size   |-> Config.max_position_size,
      max_daily_trades    |-> Config.max_daily_trades,
      min_trade_interval  |-> Config.min_trade_interval,
      supertrend          |-> Main_SuperTrendIndicator(Config.atr_period,
                                                       Config.multiplier),
      position_size       |-> R(0),
      entry_price         |-> None,
      stop_loss_level     |-> None,
      position_entry_time |-> NoneT,
      daily_trade_count   |-> 0,
      last_trade_time     |-> NoneT,
      total_trades        |-> 0,
      winning_trades      |-> 0,
      losing_trades       |-> 0,
      daily_pnl           |-> R(0),
      total_pnl           |-> R(0),
      start_of_day_equity |-> total_portfolio_value(pf),
      pause_trading_until |-> NoneT,
      daily_reset_time    |-> NoneT,
      _current_reset_date |-> NoneT,
      max_drawdown        |-> R(0),
      peak_equity         |-> total_portfolio_value(pf),
      initial_cash        |-> total_portfolio_value(pf),
      _prev_close         |-> None,
      _prev_price         |-> None ]

\* current_time.strftime("%Y-%m-%d"), as the number of the day
Date(t) == t \div 1440

\* the validation that accepts every bar
validate_market_data_accept_all(bar) == TRUE

validate_market_data(bar) ==
    /\ bar.low <= bar.close /\ bar.close <= bar.high
    /\ bar.low <= bar.open /\ bar.open <= bar.high

\* the reset that runs on every bar of every later day
_check_daily_reset_every_bar(w, current_time) ==
    LET self == w.self
    IN  IF self.daily_reset_time = NoneT
        THEN [w EXCEPT !.self.daily_reset_time = <<current_time>>,
                       !.self.start_of_day_equity = total_portfolio_value(w.portfolio),
                       !.obs.reset = TRUE]
        ELSE IF Date(current_time) > Date(self.daily_reset_time[1])
             THEN [w EXCEPT !.self.daily_trade_count = 0,
                            !.self.start_of_day_equity =
                                total_portfolio_value(w.portfolio),
                            !.obs.reset = TRUE]
             ELSE w

_check_daily_reset(w, current_time) ==
    LET self == w.self
    IN  IF self.daily_reset_time = NoneT
        THEN [w EXCEPT !.self.daily_reset_time = <<current_time>>,
                       !.self.start_of_day_equity = total_portfolio_value(w.portfolio),
                       !.obs.reset = TRUE]
        ELSE IF Date(current_time) > Date(self.daily_reset_time[1])
             THEN LET reset_date == IF self._current_reset_date = NoneT
                                    THEN <<Date(self.daily_reset_time[1])>>
                                    ELSE self._current_reset_date
                  IN  IF <<Date(current_time)>> # reset_date
                      THEN [w EXCEPT !.self.daily_trade_count = 0,
                                     !.self.start_of_day_equity =
                                         total_portfolio_value(w.portfolio),
                                     !.self._current_reset_date = <<Date(current_time)>>,
                                     !.obs.reset = TRUE]
                      ELSE [w EXCEPT !.self._current_reset_date = reset_date]
             ELSE w

\* the check without the daily limit
_can_trade_no_cap(self, current_time) ==
    IF /\ self.last_trade_time # NoneT
       /\ current_time - self.last_trade_time[1] < self.min_trade_interval
    THEN FALSE
    ELSE TRUE

\* the check without the minimum interval
_can_trade_no_interval(self, current_time) ==
    IF self.daily_trade_count >= self.max_daily_trades THEN FALSE ELSE TRUE

_can_trade(self, current_time) ==
    IF self.daily_trade_count >= self.max_daily_trades THEN FALSE
    ELSE IF /\ self.last_trade_time # NoneT
            /\ current_time - self.last_trade_time[1] < self.min_trade_interval
         THEN FALSE
         ELSE TRUE

\* the sizing that rejects only a non-positive entry price
calculate_position_size_entry_only(self, entry_price, stop_price, account_equity) ==
    IF RLeq(entry_price, R(0)) THEN R(0)
    ELSE LET risk_amount == RMul(account_equity, self.risk_per_trade)
             distance    == RAbs(RSub(entry_price, stop_price))
             min_dist    == RMul(entry_price, <<1, 100>>)
             price_risk_per_unit == IF RLt(distance, min_dist) THEN min_dist
                                    ELSE distance
             calculated_size == RDiv(risk_amount, price_risk_per_unit)
             max_size_by_allocation ==
                 RDiv(RMul(account_equity, self.max_position_size), entry_price)
             final_position_size == RMin(calculated_size, max_size_by_allocation)
             min_quantity == RDiv(R(100), entry_price)
         IN  IF RLt(final_position_size, min_quantity) THEN min_quantity
             ELSE final_position_size

\* the sizing without the allocation limit
calculate_position_size_no_cap(self, entry_price, stop_price, account_equity) ==
    IF RLeq(entry_price, R(0)) \/ RLeq(stop_price, R(0)) THEN R(0)
    ELSE LET risk_amount == RMul(account_equity, self.risk_per_trade)
             distance    == RAbs(RSub(entry_price, stop_price))
             min_dist    == RMul(entry_price, <<1, 100>>)
             price_risk_per_unit == IF RLt(distance, min_dist) THEN min_dist
                                    ELSE distance
             calculated_size == RDiv(risk_amount, price_risk_per_unit)
             min_quantity == RDiv(R(100), entry_price)
         IN  IF RLt(calculated_size, min_quantity) THEN min_quantity
             ELSE calculated_size

calculate_position_size(self, entry_price, stop_price, account_equity) ==
    IF RLeq(entry_price, R(0)) \/ RLeq(stop_price, R(0)) THEN R(0)
    ELSE LET risk_amount == RMul(account_equity, self.risk_per_trade)
             distance    == RAbs(RSub(entry_price, stop_price))
             min_dist    == RMul(entry_price, <<1, 100>>)
             price_risk_per_unit == IF RLt(distance, min_dist) THEN min_dist
                                    ELSE distance
             calculated_size == RDiv(risk_amount, price_risk_per_unit)
             max_size_by_allocation ==
                 RDiv(RMul(account_equity, self.max_position_size), entry_price)
             final_position_size == RMin(calculated_size, max_size_by_allocation)
             min_quantity == RDiv(R(100), entry_price)
         IN  IF RLt(final_position_size, min_quantity) THEN min_quantity
             ELSE final_position_size

\* what the execution venue does with an order: fill it, fill half of it,
\* return a ticket for an order it rejects, or return no ticket
Outcomes == {"filled", "partial", "rejected", "no_ticket"}

FilledPart(quantity, outcome) ==
    IF outcome = "filled" THEN quantity
    ELSE IF outcome = "partial" THEN RDiv(quantity, R(2))
    ELSE R(0)

\* self.market_order(symbol, quantity) at the current price
market_order(w, quantity, outcome) ==
    LET got == FilledPart(quantity, outcome)
    IN  [w EXCEPT !.portfolio.quantity = RAdd(@, got),
                  !.portfolio.cash = RSub(@, RMul(got, R(w.portfolio.price))),
                  !.obs.order = "buy",
                  !.obs.orders = @ + 1,
                  !.obs.fill = outcome]

\* self.liquidate(symbol) at the current price
liquidate(w, outcome) ==
    LET sold == FilledPart(w.portfolio.quantity, outcome)
    IN  [w EXCEPT !.portfolio.quantity = RSub(@, sold),
                  !.portfolio.cash = RAdd(@, RMul(sold, R(w.portfolio.price))),
                  !.obs.order = "liquidate",
                  !.obs.orders = @ + 1,
                  !.obs.fill = outcome]

\* the handler without the check for an existing position
_handle_buy_signal_accumulate(w, current_price, current_time, outcome) ==
    LET self == w.self
        current_supertrend == Main_get_current_supertrend(self.supertrend)
        stop_price == current_supertrend
        order_ticket == outcome # "no_ticket"
        Record(w1) ==
            IF order_ticket
            THEN [w1 EXCEPT !.self.daily_trade_count = @ + 1,
                            !.self.last_trade_time = <<current_time>>,
                            !.self.total_trades = @ + 1,
                            !.self.position_size = w1.portfolio.quantity,
                            !.self.entry_price = current_price,
                            !.self.stop_loss_level = stop_price,
                            !.self.position_entry_time = <<current_time>>]
            ELSE w1
        Order(position_size) ==
            IF position_size[1] > 0
            THEN Record(market_order(w, position_size, outcome))
            ELSE w
    IN  IF ~Truthy(current_supertrend) THEN w
        ELSE Order(calculate_position_size(self, current_price, stop_price,
                                           total_portfolio_value(w.portfolio)))

\* the handler that takes the upper band as the stop
_handle_buy_signal_upper_stop(w, current_price, current_time, outcome) ==
    LET self == w.self
        current_holdings == w.portfolio.quantity
        current_supertrend == Main_get_current_supertrend(self.supertrend)
        stop_price == self.supertrend.final_upper_band
        order_ticket == outcome # "no_ticket"
        Record(w1) ==
            IF order_ticket
            THEN [w1 EXCEPT !.self.daily_trade_count = @ + 1,
                            !.self.last_trade_time = <<current_time>>,
                            !.self.total_trades = @ + 1,
                            !.self.position_size = w1.portfolio.quantity,
                            !.self.entry_price = current_price,
                            !.self.stop_loss_level = stop_price,
                            !.self.position_entry_time = <<current_time>>]
            ELSE w1
        Order(position_size) ==
            IF position_size[1] > 0
            THEN Record(market_order(w, position_size, outcome))
            ELSE w
    IN  IF current_holdings[1] > 0 THEN w
        ELSE IF ~Truthy(current_supertrend) THEN w
        ELSE Order(calculate_position_size(self, current_price, stop_price,
                                           total_portfolio_value(w.portfolio)))

_handle_buy_signal(w, current_price, current_time, outcome) ==
    LET self == w.self
        current_holdings == w.portfolio.quantity
        current_supertrend == Main_get_current_supertrend(self.supertrend)
        stop_price == current_supertrend
        order_ticket == outcome # "no_ticket"
        Record(w1) ==
            IF order_ticket
            THEN [w1 EXCEPT !.self.daily_trade_count = @ + 1,
                            !.self.last_trade_time = <<current_time>>,
                            !.self.total_trades = @ + 1,
                            !.self.position_size = w1.portfolio.quantity,
                            !.self.entry_price = current_price,
                            !.self.stop_loss_level = stop_price,
                            !.self.position_entry_time = <<current_time>>]
            ELSE w1
        Order(position_size) ==
            IF position_size[1] > 0
            THEN Record(market_order(w, position_size, outcome))
            ELSE w
    IN  IF current_holdings[1] > 0 THEN w
        ELSE IF ~Truthy(current_supertrend) THEN w
        ELSE Order(calculate_position_size(self, current_price, stop_price,
                                           total_portfolio_value(w.portfolio)))

\* the handler that closes the position without recording the trade
_handle_sell_signal_unrecorded(w, current_price, current_time, outcome) ==
    LET current_holdings == w.portfolio.quantity
        w1 == liquidate(w, outcome)
        new_holdings == w1.portfolio.quantity
    IN  IF current_holdings[1] <= 0 THEN w
        ELSE IF RLt(new_holdings, current_holdings)
             THEN [w1 EXCEPT !.self.position_size = R(0),
                             !.self.entry_price = None,
                             !.self.stop_loss_level = None,
                             !.self.position_entry_time = NoneT]
             ELSE w1

\* the handler that records the trade without comparing the holdings
_handle_sell_signal_unverified(w, current_price, current_time, outcome) ==
    LET self == w.self
        current_holdings == w.portfolio.quantity
        pnl == IF Truthy(self.entry_price)
               THEN RMul(RSub(current_price, self.entry_price), current_holdings)
               ELSE R(0)
        w1 == liquidate(w, outcome)
    IN  IF current_holdings[1] <= 0 THEN w
        ELSE [w1 EXCEPT !.self.daily_trade_count = @ + 1,
                        !.self.last_trade_time = <<current_time>>,
                        !.self.total_trades = @ + 1,
                        !.self.winning_trades = IF pnl[1] > 0 THEN @ + 1 ELSE @,
                        !.self.losing_trades = IF pnl[1] > 0 THEN @ ELSE @ + 1,
                        !.self.total_pnl = RAdd(@, pnl),
                        !.self.position_size = R(0),
                        !.self.entry_price = None,
                        !.self.stop_loss_level = None,
                        !.self.position_entry_time = NoneT]

_handle_sell_signal(w, current_price, current_time, outcome) ==
    LET self == w.self
        current_holdings == w.portfolio.quantity
        pnl == IF Truthy(self.entry_price)
               THEN RMul(RSub(current_price, self.entry_price), current_holdings)
               ELSE R(0)
        w1 == liquidate(w, outcome)
        new_holdings == w1.portfolio.quantity
    IN  IF current_holdings[1] <= 0 THEN w
        ELSE IF RLt(new_holdings, current_holdings)
             THEN [w1 EXCEPT !.self.daily_trade_count = @ + 1,
                             !.self.last_trade_time = <<current_time>>,
                             !.self.total_trades = @ + 1,
                             !.self.winning_trades = IF pnl[1] > 0 THEN @ + 1 ELSE @,
                             !.self.losing_trades = IF pnl[1] > 0 THEN @ ELSE @ + 1,
                             !.self.total_pnl = RAdd(@, pnl),
                             !.self.position_size = R(0),
                             !.self.entry_price = None,
                             !.self.stop_loss_level = None,
                             !.self.position_entry_time = NoneT]
             ELSE w1

\* the stop that is set to the trend level on every bar of an open position
_update_stop_loss_follow(w, current_price) ==
    LET self == w.self
        current_supertrend == Main_get_current_supertrend(self.supertrend)
    IN  IF /\ is_long(w.portfolio)
           /\ Truthy(self.stop_loss_level)
           /\ Truthy(current_supertrend)
        THEN [w EXCEPT !.self.stop_loss_level = current_supertrend]
        ELSE w

_update_stop_loss(w, current_price) ==
    LET self == w.self
        current_supertrend == Main_get_current_supertrend(self.supertrend)
    IN  IF /\ is_long(w.portfolio)
           /\ Truthy(self.stop_loss_level)
           /\ self.supertrend.signal = 1
           /\ Truthy(current_supertrend)
           /\ RLt(self.stop_loss_level, current_supertrend)
        THEN [w EXCEPT !.self.stop_loss_level = current_supertrend]
        ELSE w

\* the strategy that closes a position and reopens it on a buy signal
_execute_trading_strategy_reverse(w, bar, current_time, outcome) ==
    LET current_price == R(bar.close)
        Handle(w2) ==
            IF Main_is_buy_signal(w2.self.supertrend)
            THEN _handle_buy_signal(
                     _handle_sell_signal(w2, current_price, current_time, outcome),
                     current_price, current_time, outcome)
            ELSE IF Main_is_sell_signal(w2.self.supertrend)
                 THEN _handle_sell_signal(w2, current_price, current_time, outcome)
                 ELSE w2
        Trade(w1) ==
            IF ~_can_trade(w1.self, current_time)
            THEN [w1 EXCEPT !.obs.stage = "throttled"]
            ELSE _update_stop_loss(
                     Handle([w1 EXCEPT !.self._prev_price = current_price,
                                       !.obs.stage = "executed"]),
                     current_price)
    IN  Trade(_check_daily_reset(w, current_time))

_execute_trading_strategy(w, bar, current_time, outcome) ==
    LET current_price == R(bar.close)
        Handle(w2) ==
            IF Main_is_buy_signal(w2.self.supertrend)
            THEN _handle_buy_signal(w2, current_price, current_time, outcome)
            ELSE IF Main_is_sell_signal(w2.self.supertrend)
                 THEN _handle_sell_signal(w2, current_price, current_time, outcome)
                 ELSE w2
        Trade(w1) ==
            IF ~_can_trade(w1.self, current_time)
            THEN [w1 EXCEPT !.obs.stage = "throttled"]
            ELSE _update_stop_loss(
                     Handle([w1 EXCEPT !.self._prev_price = current_price,
                                       !.obs.stage = "executed"]),
                     current_price)
    IN  Trade(_check_daily_reset(w, current_time))

_get_win_rate(self) ==
    IF self.total_trades = 0 THEN R(0)
    ELSE RDiv(R(self.winning_trades), R(self.total_trades))

\* the metrics that keep the drawdown of the last bar instead of the largest
_update_performance_metrics_last_drawdown(w) ==
    LET self == w.self
        current_equity == total_portfolio_value(w.portfolio)
        peak_equity == RMax(self.peak_equity, current_equity)
        current_drawdown == RDiv(RSub(peak_equity, current_equity), peak_equity)
    IN  [w EXCEPT !.self.peak_equity = peak_equity,
                  !.self.max_drawdown = current_drawdown,
                  !.self.daily_pnl = RSub(current_equity, self.start_of_day_equity)]

_update_performance_metrics(w) ==
    LET self == w.self
        current_equity == total_portfolio_value(w.portfolio)
        peak_equity == RMax(self.peak_equity, current_equity)
        current_drawdown == RDiv(RSub(peak_equity, current_equity), peak_equity)
    IN  [w EXCEPT !.self.peak_equity = peak_equity,
                  !.self.max_drawdown = RMax(@, current_drawdown),
                  !.self.daily_pnl = RSub(current_equity, self.start_of_day_equity)]

\* the supertrend part of update_indicators; the result of the call is
\* self.supertrend.is_ready
update_indicators(w, bar) ==
    LET Updated(st) == [w EXCEPT !.self.supertrend = st,
                                 !.obs.buy_signal = Main_is_buy_signal(st),
                                 !.obs.sell_signal = Main_is_sell_signal(st)]
    IN  Updated(Main_update(w.self.supertrend,
                            R(bar.high), R(bar.low), R(bar.close)))

\* a slice without a bar of the symbol
NoBar == [open |-> 0, high |-> 0, low |-> 0, close |-> 0]

\* the handler that trades whether or not the indicator is ready
on_data_trade_unready(w, bar, current_time, warming_up, outcome) ==
    LET self == w.self
        w1 == [w EXCEPT !.self._prev_close = R(bar.close)]
        Trade(w2) ==
            _update_performance_metrics(
                _execute_trading_strategy(w2, bar, current_time, outcome))
    IN  IF warming_up THEN [w EXCEPT !.obs.stage = "warming_up"]
        ELSE IF /\ self.pause_trading_until # NoneT
                /\ current_time < self.pause_trading_until[1]
             THEN [w EXCEPT !.obs.stage = "paused"]
        ELSE IF bar = NoBar THEN [w EXCEPT !.obs.stage = "no_bar"]
        ELSE IF ~validate_market_data(bar) THEN [w EXCEPT !.obs.stage = "invalid"]
        ELSE Trade(update_indicators(w1, bar))

\* the handler without the pause
on_data_no_pause(w, bar, current_time, warming_up, outcome) ==
    LET self == w.self
        w1 == [w EXCEPT !.self._prev_close = R(bar.close)]
        Trade(w2) ==
            IF ~w2.self.supertrend.is_ready
            THEN [w2 EXCEPT !.obs.stage = "not_ready"]
            ELSE _update_performance_metrics(
                     _execute_trading_strategy(w2, bar, current_time, outcome))
    IN  IF warming_up THEN [w EXCEPT !.obs.stage = "warming_up"]
        ELSE IF bar = NoBar THEN [w EXCEPT !.obs.stage = "no_bar"]
        ELSE IF ~validate_market_data(bar) THEN [w EXCEPT !.obs.stage = "invalid"]
        ELSE Trade(update_indicators(w1, bar))

on_data(w, bar, current_time, warming_up, outcome) ==
    LET self == w.self
        w1 == [w EXCEPT !.self._prev_close = R(bar.close)]
        Trade(w2) ==
            IF ~w2.self.supertrend.is_ready
            THEN [w2 EXCEPT !.obs.stage = "not_ready"]
            ELSE _update_performance_metrics(
                     _execute_trading_strategy(w2, bar, current_time, outcome))
    IN  IF warming_up THEN [w EXCEPT !.obs.stage = "warming_up"]
        ELSE IF /\ self.pause_trading_until # NoneT
                /\ current_time < self.pause_trading_until[1]
             THEN [w EXCEPT !.obs.stage = "paused"]
        ELSE IF bar = NoBar THEN [w EXCEPT !.obs.stage = "no_bar"]
        ELSE IF ~validate_market_data(bar) THEN [w EXCEPT !.obs.stage = "invalid"]
        ELSE Trade(update_indicators(w1, bar))

\* the handler that never pauses
on_error_never_pause(self, error_code, current_time) ==
    IF error_code = 2076
    THEN [self EXCEPT !.risk_per_trade = RMul(@, <<4, 5>>)]
    ELSE self

on_error(self, error_code, current_time) ==
    IF error_code = 2076
    THEN [self EXCEPT !.risk_per_trade = RMul(@, <<4, 5>>)]
    ELSE IF error_code = 200 THEN self
    ELSE [self EXCEPT !.pause_trading_until = <<current_time + 5>>]

-----------------------------------------------------------------------------
(* The indicator driven directly: any (high, low, close), also inconsistent *)
(* ones, since update does not validate its input.                          *)

Periods == {1, 2}

Multipliers == {<<1, 4>>, <<3, 1>>}

\* <<high, low, close>>
IndBars == { <<2, 2, 2>>, <<4, 2, 4>>, <<4, 2, 2>>, <<6, 4, 6>>, <<1, 3, 2>> }

NoFeed == [n |-> 0, close |-> 0, buys |-> {}, cross |-> 0]

\* the strategy is not running
NoStrategy ==
    /\ algo = <<>>
    /\ portfolio = <<>>
    /\ time = 0
    /\ is_warming_up = FALSE
    /\ obs = <<>>

strategy_vars == <<algo, portfolio, time, is_warming_up, obs>>

IndInit ==
    /\ \E p \in Periods, m \in Multipliers : ind = SuperTrendIndicator(p, m)
    /\ before = ind
    /\ feed = NoFeed
    /\ NoStrategy

IndUpdate ==
    /\ ind.bar_count < MaxBars
    /\ \E b \in IndBars : ind' = update(ind, R(b[1]), R(b[2]), R(b[3]))
    /\ before' = ind
    /\ UNCHANGED <<feed, strategy_vars>>

IndReset ==
    /\ ind' = reset(ind)
    /\ before' = ind
    /\ UNCHANGED <<feed, strategy_vars>>

IndNext == IndUpdate \/ IndReset

SpecInd == IndInit /\ [][IndNext]_vars

\* the step is one update call
IsUpdateStep == ind'.bar_count = ind.bar_count + 1

\* C1: band continuity.  On every update other than the first, the final
\* upper band is greater than before only if the bar's close was strictly
\* above its previous value, and the final lower band is smaller than before
\* only if the close was strictly below its previous value.
BandContinuity ==
    [][ (IsUpdateStep /\ ~IsNone(ind.final_upper_band)) =>
          /\ RLt(ind.final_upper_band, ind'.final_upper_band)
                => RLt(ind.final_upper_band, ind'.prev_close)
          /\ RLt(ind'.final_lower_band, ind.final_lower_band)
                => RLt(ind'.prev_close, ind.final_lower_band) ]_vars

\* an update has raised the upper band, and an earlier or later one is free
\* to lower the lower band: here the upper band rose on a close above it
BandContinuityWitness ==
    /\ ind.bar_count = before.bar_count + 1
    /\ ~IsNone(before.final_upper_band)
    /\ RLt(before.final_upper_band, ind.final_upper_band)
    /\ RLt(before.final_upper_band, ind.prev_close)

\* C9 as stated: once ready, the indicator is ready in every later state.
ReadyNeverReverts == [][ind.is_ready => ind'.is_ready]_vars

\* C9 amended: is_ready is false in every state with bar_count < 2 * period
\* and true in every state with bar_count >= 2 * period, so it becomes true
\* during exactly the update that makes bar_count equal 2 * period; it
\* becomes false again only by reset(), which also clears bar_count.
ReadyIffWarm ==
    /\ [](ind.is_ready <=> ind.bar_count >= 2 * ind.period)
    /\ [][(ind.is_ready /\ ~ind'.is_ready) => ind' = reset(ind)]_vars

ReadyIffWarmWitness ==
    /\ ~before.is_ready
    /\ ind.is_ready
    /\ ind.bar_count = 2 * ind.period

\* C10: transitions are edge-triggered.  After an update is_buy_signal() holds
\* only if the update changed signal from -1 to 1 and the indicator is ready,
\* is_sell_signal() only if it changed signal from 1 to -1, and neither holds
\* when the update left signal at the value it had.
EdgeTriggered ==
    [][ IsUpdateStep =>
          /\ is_buy_signal(ind')
                => (ind.signal = -1 /\ ind'.signal = 1 /\ ind'.is_ready)
          /\ is_sell_signal(ind')
                => (ind.signal = 1 /\ ind'.signal = -1 /\ ind'.is_ready)
          /\ ind'.signal = ind.signal
                => (~is_buy_signal(ind') /\ ~is_sell_signal(ind')) ]_vars

\* a buy transition right after a sell transition
EdgeTriggeredWitness ==
    /\ ind.bar_count = before.bar_count + 1
    /\ is_buy_signal(ind)
    /\ is_sell_signal(before)

\* C21: after every update, a close at or below the final upper band gives
\* signal -1 with the upper band as trend level, a close above it gives
\* signal 1 with the lower band as trend level; prev_signal is the signal
\* before the update and update returns (supertrend, signal)
SignalRule ==
    [][ IsUpdateStep =>
          /\ IF RLeq(ind'.prev_close, ind'.final_upper_band)
             THEN ind'.signal = -1 /\ ind'.supertrend = ind'.final_upper_band
             ELSE ind'.signal = 1 /\ ind'.supertrend = ind'.final_lower_band
          /\ ind'.prev_signal = ind.signal
          /\ update_return(ind') = <<ind'.supertrend, ind'.signal>> ]_vars

\* an update has turned the signal from down to up
SignalRuleWitness ==
    /\ ind.bar_count = before.bar_count + 1
    /\ before.signal = -1
    /\ ind.signal = 1
    /\ ind.supertrend = ind.final_lower_band
    /\ RLt(ind.final_lower_band, ind.final_upper_band)

\* the step is a reset() call: update only increases bar_count
IsResetStep == ind'.bar_count = 0

\* C23: after reset() is_ready is false, signal is 0 and the indicator is in
\* the state of a newly constructed one with the same period and multiplier,
\* so that every bar fed afterwards gives the same trend level, signal,
\* readiness and transitions as on a fresh indicator
ResetRestoresInitial ==
    [][ IsResetStep =>
          /\ ~ind'.is_ready
          /\ ind'.signal = 0
          /\ ind' = SuperTrendIndicator(ind.period, ind.multiplier)
          /\ \A b \in IndBars :
                update(ind', R(b[1]), R(b[2]), R(b[3])) =
                update(SuperTrendIndicator(ind.period, ind.multiplier),
                       R(b[1]), R(b[2]), R(b[3])) ]_vars

\* a ready indicator in an uptrend has been reset
ResetRestoresInitialWitness ==
    /\ ind.bar_count = 0
    /\ before.is_ready
    /\ before.signal = 1
    /\ ~IsNone(before.prev_atr)
    /\ ind = SuperTrendIndicator(before.period, before.multiplier)

\* the value calculate_atr returns when update is called with bar b
UpdateAtr(self, b) ==
    calculate_atr(self, calculate_true_range(R(b[1]), R(b[2]), self.prev_close)).atr

\* C24: while is_ready is false the getters return None, 0 and None; while it
\* is true they return the stored trend level, a signal that is -1 or 1, and
\* the smoothed ATR of the last update
GatedGetters ==
    /\ [] IF ind.is_ready
          THEN /\ get_current_supertrend(ind) = ind.supertrend
               /\ ~IsNone(get_current_supertrend(ind))
               /\ get_current_signal(ind) = ind.signal
               /\ get_current_signal(ind) \in {-1, 1}
               /\ get_volatility_measure(ind) = ind.prev_atr
               /\ ~IsNone(get_volatility_measure(ind))
          ELSE /\ get_current_supertrend(ind) = None
               /\ get_current_signal(ind) = 0
               /\ get_volatility_measure(ind) = None
    /\ [][ (IsUpdateStep /\ ind'.is_ready) =>
              \A b \in IndBars :
                 ind' = update(ind, R(b[1]), R(b[2]), R(b[3])) =>
                    get_volatility_measure(ind') = UpdateAtr(ind, b) ]_vars

\* the update that made the indicator ready; it had a signal before
GatedGettersWitness ==
    /\ ind.bar_count = before.bar_count + 1
    /\ ~before.is_ready
    /\ before.signal # 0
    /\ ~IsNone(before.supertrend)
    /\ ind.is_ready
    /\ ind.signal = 1

\* C26: update called with low > high, in any state, yields an indicator
\* with a trend level, a signal that is -1 or 1 and bar_count advanced by
\* one, and returns that trend level and signal
InconsistentBarAccepted ==
    \A b \in {x \in IndBars : x[2] > x[1]} :
       LET after == update(ind, R(b[1]), R(b[2]), R(b[3]))
       IN  /\ ~IsNone(after.supertrend)
           /\ after.signal \in {-1, 1}
           /\ after.bar_count = ind.bar_count + 1
           /\ update_return(after) = <<after.supertrend, after.signal>>
           /\ ~IsNone(update_return(after)[1])

\* a ready indicator has been updated with the bar high 1, low 3, close 2
InconsistentBarAcceptedWitness ==
    /\ before.is_ready
    /\ ind = update(before, R(1), R(3), R(2))
    /\ ind.bar_count = before.bar_count + 1
    /\ ind.signal \in {-1, 1}

\* the candidate upper band of bar b: midpoint + multiplier * ATR
CandidateUpper(self, b) ==
    RAdd(RDiv(RAdd(R(b[1]), R(b[2])), R(2)),
         RMul(self.multiplier, UpdateAtr(self, b)))

\* C32: an update ends with signal = 1 only if the bar's close is strictly
\* above the candidate upper band computed from that same bar, and then the
\* final upper band is that candidate
UpNeedsCloseAboveCandidate ==
    [][ (IsUpdateStep /\ ind'.signal = 1) =>
          \A b \in IndBars :
             ind' = update(ind, R(b[1]), R(b[2]), R(b[3])) =>
                /\ RLt(CandidateUpper(ind, b), R(b[3]))
                /\ ind'.final_upper_band = CandidateUpper(ind, b) ]_vars

\* an update with a close above the previous final upper band has ended with
\* signal = 1 and a new upper band
UpNeedsCloseAboveCandidateWitness ==
    /\ ind.bar_count = before.bar_count + 1
    /\ ~IsNone(before.final_upper_band)
    /\ RLt(before.final_upper_band, ind.prev_close)
    /\ ind.signal = 1
    /\ ind.final_upper_band # before.final_upper_band

-----------------------------------------------------------------------------
(* Scenario A: period 5, multiplier 3, 20 bars with strictly decreasing    *)
(* closes, then 20 bars with strictly increasing closes.  Every bar is     *)
(* valid: high = close + HalfRange, low = close - HalfRange, and the close *)
(* moves by a step of at most HalfRange, so that the bar contains the      *)
(* previous close.                                                         *)

ScenarioA == [period |-> 5, multiplier |-> R(3), down |-> 20, up |-> 20,
              first_close |-> 100]

Steps == {1, 2}

HalfRange == 2

ScenInit ==
    /\ ind = SuperTrendIndicator(ScenarioA.period, ScenarioA.multiplier)
    /\ before = ind
    /\ feed = NoFeed
    /\ NoStrategy

\* feed bar number feed.n + 1 with the given close
FeedBar(close) ==
    /\ ind' = update(ind, R(close + HalfRange), R(close - HalfRange), R(close))
    /\ before' = ind
    /\ feed' = [n     |-> feed.n + 1,
                close |-> close,
                buys  |-> IF is_buy_signal(ind') THEN feed.buys \cup {feed.n + 1}
                          ELSE feed.buys,
                cross |-> IF /\ feed.cross = 0
                             /\ feed.n >= ScenarioA.down
                             /\ RLt(ind.final_upper_band, R(close))
                          THEN feed.n + 1 ELSE feed.cross]
    /\ UNCHANGED strategy_vars

FeedFirst ==
    /\ feed.n = 0
    /\ FeedBar(ScenarioA.first_close)

FeedDown ==
    /\ feed.n >= 1
    /\ feed.n < ScenarioA.down
    /\ \E s \in Steps : FeedBar(feed.close - s)

FeedUp ==
    /\ feed.n >= ScenarioA.down
    /\ feed.n < ScenarioA.down + ScenarioA.up
    /\ \E s \in Steps : FeedBar(feed.close + s)

ScenNext == FeedFirst \/ FeedDown \/ FeedUp

SpecScenarioA == ScenInit /\ [][ScenNext]_vars

\* C2: scenario A.  When the 40 bars have been fed, is_buy_signal() was true
\* after exactly one of them, that bar lies in the increasing phase, and it
\* is the first bar whose close exceeded the previous final upper band.
ScenarioAOneBuy ==
    feed.n = ScenarioA.down + ScenarioA.up =>
        /\ Cardinality(feed.buys) = 1
        /\ feed.buys = {feed.cross}
        /\ feed.cross > ScenarioA.down

-----------------------------------------------------------------------------
(* The strategy run by the engine: bars arrive in time order, each with    *)
(* the venue's answer to the order the bar may cause; errors are reported  *)
(* between bars.                                                           *)

Bar(o, h, l, c) == [open |-> o, high |-> h, low |-> l, close |-> c]

\* two rising bars, two falling bars, and a bar with low > high
CtlBars == { Bar(2, 4, 2, 4), Bar(4, 8, 4, 8), Bar(4, 4, 2, 2), Bar(8, 8, 6, 6),
             Bar(2, 1, 3, 2) }

\* minutes between consecutive slices: less than the pause after an error and
\* than the trade interval, or ten hours
TimeSteps == {4, 600}

ErrorCodes == {2076, 200, 1}

NoObs == [ n           |-> 0,        \* on_data calls so far
           errors      |-> 0,        \* on_error calls that changed the strategy
           gaps        |-> 0,        \* ten-hour gaps so far
           stage       |-> "none",   \* where the last on_data call returned
           reset       |-> FALSE,    \* it snapshotted start_of_day_equity
           order       |-> "none",   \* the order it requested
           orders      |-> 0,        \* number of orders it requested
           fill        |-> "none",   \* the venue's answer to that order
           buy_signal  |-> FALSE,    \* is_buy_signal() after its indicator update
           sell_signal |-> FALSE,
           last_date   |-> NoneT ]   \* date of the last bar that reached
                                     \* _execute_trading_strategy

Init ==
    /\ portfolio = [cash |-> R(Config.cash), quantity |-> R(0), price |-> 0]
    /\ algo = initialize(portfolio)
    /\ time = 0
    /\ is_warming_up = TRUE
    /\ obs = NoObs
    /\ ind = <<>>
    /\ before = <<>>
    /\ feed = <<>>

Executed(o) == o.stage \in {"throttled", "executed"}

\* the slice at time t with the given bar, answered by the venue with outcome
Slice(bar, t, outcome) ==
    LET pf == IF bar = NoBar THEN portfolio
              ELSE [portfolio EXCEPT !.price = bar.close]
        w0 == [self      |-> algo,
               portfolio |-> pf,
               obs       |-> [NoObs EXCEPT !.n = obs.n + 1,
                                           !.errors = obs.errors,
                                           !.gaps = obs.gaps,
                                           !.last_date = obs.last_date]]
    IN  on_data(w0, bar, t, is_warming_up, outcome)

OnData ==
    /\ obs.n < MaxData
    /\ \E bar \in CtlBars \cup {NoBar}, dt \in TimeSteps :
         LET t == time + dt
             gaps == IF dt >= 600 THEN obs.gaps + 1 ELSE obs.gaps
             Deliver(w, outcome) ==
                 \* the venue answers only if the slice makes the strategy order
                 /\ outcome = "filled" \/ w.obs.order # "none"
                 /\ time' = t
                 /\ algo' = w.self
                 /\ portfolio' = w.portfolio
                 /\ obs' = [w.obs EXCEPT
                              !.gaps = gaps,
                              !.last_date = IF Executed(w.obs) THEN <<Date(t)>>
                                            ELSE @]
         IN  /\ gaps <= MaxGaps
             /\ \E outcome \in Outcomes : Deliver(Slice(bar, t, outcome), outcome)
    /\ UNCHANGED <<is_warming_up, ind, before, feed>>

EndWarmUp ==
    /\ is_warming_up
    /\ is_warming_up' = FALSE
    /\ UNCHANGED <<algo, portfolio, time, obs, ind, before, feed>>

\* the engine reports an error about the order of the last slice, which the
\* venue did not fill
OnError ==
    /\ obs.errors < MaxErrors
    /\ obs.order # "none"
    /\ obs.fill \in {"rejected", "no_ticket"}
    /\ \E code \in ErrorCodes : algo' = on_error(algo, code, time)
    /\ obs' = [obs EXCEPT !.errors = IF algo' # algo THEN @ + 1 ELSE @]
    /\ UNCHANGED <<portfolio, time, is_warming_up, ind, before, feed>>

Next == OnData \/ EndWarmUp \/ OnError

Spec == Init /\ [][Next]_vars

-----------------------------------------------------------------------------
(* Properties of the strategy.  A step is an on_data call iff it advances  *)
(* obs.n; obs' then tells what that call did.                              *)

IsOnData == obs'.n = obs.n + 1

\* the bar of the step reached _execute_trading_strategy
IsStrategyStep == IsOnData /\ Executed(obs')

\* exit thresholds of the minutely strategy
stop_loss_pct == <<1, 50>>

take_profit_pct == <<1, 25>>

\* the close of the step's bar is beyond the stop-loss or take-profit level
BeyondExitLevel ==
    LET close == R(portfolio'.price)
    IN  \/ RLt(close, RMul(algo.entry_price, RSub(R(1), stop_loss_pct)))
        \/ RLt(RMul(algo.entry_price, RAdd(R(1), take_profit_pct)), close)

\* C3: while a long position is open, a bar closing beyond the stop-loss or
\* take-profit level of the entry price makes the controller request
\* liquidation on that bar, with or without a sell-transition or a recent trade
ExitOnStopOrTarget ==
    [][ ( /\ IsStrategyStep
          /\ is_long(portfolio)
          /\ Truthy(algo.entry_price)
          /\ BeyondExitLevel )
        => obs'.order = "liquidate" ]_vars

\* the fields a recorded buy writes
BuyRecord(self) ==
    << self.entry_price, self.stop_loss_level, self.position_entry_time,
       self.position_size, self.daily_trade_count, self.last_trade_time,
       self.total_trades >>

\* C4: a buy order that is requested on a bar and leaves the holdings
\* unchanged leaves entry_price, stop_loss_level, position_entry_time,
\* position_size, daily_trade_count, last_trade_time and total_trades unchanged
UnfilledBuyKeepsState ==
    [][ ( /\ IsOnData
          /\ obs'.order = "buy"
          /\ portfolio'.quantity = portfolio.quantity )
        => BuyRecord(algo') = BuyRecord(algo) ]_vars

World == [self |-> algo, portfolio |-> portfolio, obs |-> obs]

\* C5: with holdings > 0 _handle_buy_signal is a no-op whatever the price and
\* the venue's answer, and an on_data call requests no buy, does not increase
\* the holdings and, on a buy-transition, keeps the entry fields
NoAddToLong ==
    [][ is_long(portfolio) =>
          /\ \A bar \in CtlBars, outcome \in Outcomes :
                _handle_buy_signal(World, R(bar.close), time, outcome) = World
          /\ IsOnData =>
                /\ obs'.order # "buy"
                /\ RLeq(portfolio'.quantity, portfolio.quantity)
                /\ obs'.buy_signal =>
                      /\ algo'.entry_price = algo.entry_price
                      /\ algo'.position_size = algo.position_size
                      /\ algo'.position_entry_time = algo.position_entry_time
                      /\ algo'.daily_trade_count <= algo.daily_trade_count
                      /\ algo'.total_trades = algo.total_trades ]_vars

\* a buy-transition reached the handlers while the position was open
NoAddToLongWitness ==
    /\ obs.stage = "executed"
    /\ obs.buy_signal
    /\ obs.order = "none"
    /\ is_long(portfolio)
    /\ Truthy(algo.entry_price)

\* C6: a bar that reaches the strategy snapshots start_of_day_equity, with
\* daily_trade_count counting from 0, iff no earlier bar of its date did; no
\* other bar and no later bar of the same date resets anything
DailyResetOncePerDate ==
    [][ IsOnData =>
          /\ Executed(obs') => (obs'.reset <=> obs.last_date # <<Date(time')>>)
          /\ ~Executed(obs') => ~obs'.reset
          /\ obs'.reset =>
                /\ algo'.start_of_day_equity = total_portfolio_value(portfolio')
                /\ algo'.daily_trade_count =
                      IF algo'.total_trades > algo.total_trades THEN 1 ELSE 0
          /\ ~obs'.reset =>
                /\ algo'.start_of_day_equity = algo.start_of_day_equity
                /\ algo'.daily_trade_count >= algo.daily_trade_count ]_vars

\* a later bar of a date that was reset after a day with a trade
DailyResetOncePerDateWitness ==
    /\ obs.stage \in {"throttled", "executed"}
    /\ ~obs.reset
    /\ algo._current_reset_date = <<Date(time)>>
    /\ algo.total_trades > algo.daily_trade_count

\* the trading state a throttled bar must leave alone
TradeState(self) ==
    << BuyRecord(self), self.winning_trades, self.losing_trades, self.total_pnl,
       self._prev_price, self.start_of_day_equity, self.risk_per_trade,
       self.pause_trading_until >>

\* the interval since the last trade has not elapsed at time t
WithinInterval(self, t) ==
    /\ self.last_trade_time # NoneT
    /\ t - self.last_trade_time[1] < self.min_trade_interval

\* C7: daily_trade_count never exceeds max_daily_trades, and a bar that
\* arrives on a day whose count has reached the cap places no order and
\* changes neither the holdings nor the trading state
DailyTradeCap ==
    [][ /\ algo'.daily_trade_count <= algo'.max_daily_trades
        /\ ( /\ IsStrategyStep
             /\ ~obs'.reset
             /\ algo.daily_trade_count >= algo.max_daily_trades )
           => /\ obs'.stage = "throttled"
              /\ obs'.order = "none"
              /\ portfolio'.quantity = portfolio.quantity
              /\ portfolio'.cash = portfolio.cash
              /\ TradeState(algo') = TradeState(algo) ]_vars

\* a transition ignored because of the cap alone
DailyTradeCapWitness ==
    /\ obs.stage = "throttled"
    /\ ~obs.reset
    /\ obs.buy_signal \/ obs.sell_signal
    /\ algo.daily_trade_count = algo.max_daily_trades
    /\ ~WithinInterval(algo, time)

\* C8: an order is requested only on a bar at least min_trade_interval after
\* last_trade_time and only for a transition made by that bar's own indicator
\* update; a bar inside the interval places no order and changes no trading
\* state, and consecutive recorded trades are at least the interval apart
MinTradeInterval ==
    [][ IsOnData =>
          /\ obs'.order # "none" =>
                /\ ~WithinInterval(algo, time')
                /\ obs'.buy_signal \/ obs'.sell_signal
          /\ (IsStrategyStep /\ WithinInterval(algo, time')) =>
                /\ obs'.stage = "throttled"
                /\ obs'.order = "none"
                /\ portfolio'.quantity = portfolio.quantity
                /\ TradeState(algo') = TradeState(algo)
          /\ ( /\ algo.last_trade_time # NoneT
               /\ algo'.last_trade_time # algo.last_trade_time ) =>
                algo'.last_trade_time[1] - algo.last_trade_time[1]
                    >= algo.min_trade_interval ]_vars

\* the first bar after the interval, with the sell-transition of the bar
\* inside the interval ignored: still long, indicator down, no order
MinTradeIntervalWitness ==
    /\ obs.stage = "executed"
    /\ obs.order = "none"
    /\ is_long(portfolio)
    /\ algo.supertrend.signal = -1
    /\ algo.supertrend.prev_signal = -1
    /\ algo.last_trade_time # NoneT
    /\ time - algo.last_trade_time[1] = algo.min_trade_interval
    /\ algo.position_entry_time = algo.last_trade_time

\* the step is an on_error call that changed the strategy
IsErrorStep == obs'.n = obs.n /\ algo' # algo

PauseEffectiveAndFinite ==
    [][ (IsOnData /\ ~is_warming_up) =>
          IF /\ algo.pause_trading_until # NoneT
             /\ time' < algo.pause_trading_until[1]
          THEN /\ obs'.stage = "paused"
               /\ obs'.order = "none"
               /\ algo' = algo
               /\ portfolio'.quantity = portfolio.quantity
               /\ portfolio'.cash = portfolio.cash
          ELSE obs'.stage # "paused" ]_vars

\* a bar was skipped during the pause and the next one, after the pause,
\* reached the strategy
PauseEffectiveAndFiniteWitness ==
    /\ obs.stage \in {"throttled", "executed"}
    /\ algo.pause_trading_until # NoneT
    /\ time = algo.pause_trading_until[1] + 3

\* the bar violates low <= open <= high or low <= close <= high
InconsistentOHLC(bar) ==
    \/ bar.open < bar.low \/ bar.open > bar.high
    \/ bar.close < bar.low \/ bar.close > bar.high

\* C15: an inconsistent bar, offered in any state, is rejected before the
\* indicator is updated and changes nothing in the strategy or the holdings;
\* the bar that follows an inconsistent one, if consistent, reaches the
\* indicator
InvalidBarSkipped ==
    [][ /\ \A bar \in {b \in CtlBars : InconsistentOHLC(b)}, dt \in TimeSteps :
              LET w == on_data(World, bar, time + dt, FALSE, "filled")
              IN  /\ w.obs.stage \in {"paused", "invalid"}
                  /\ w.self = algo
                  /\ w.portfolio = portfolio
        /\ obs.stage = "invalid" =>
              \A bar \in {b \in CtlBars : ~InconsistentOHLC(b)}, dt \in TimeSteps :
                 LET w == on_data(World, bar, time + dt, FALSE, "filled")
                 IN  /\ w.obs.stage \in {"paused", "not_ready", "throttled", "executed"}
                     /\ w.obs.stage # "paused" =>
                           w.self.supertrend.bar_count = algo.supertrend.bar_count + 1
        /\ (IsOnData /\ obs'.stage = "invalid") =>
              /\ algo' = algo
              /\ obs'.order = "none"
              /\ portfolio'.quantity = portfolio.quantity
              /\ portfolio'.cash = portfolio.cash ]_vars

\* an inconsistent bar arrived while a position was open
InvalidBarSkippedWitness ==
    /\ obs.stage = "invalid"
    /\ algo.supertrend.is_ready
    /\ is_long(portfolio)
    /\ algo.daily_trade_count = 1

\* C16: a bar after whose update the indicator is not ready reaches neither
\* the daily reset nor the throttle nor a signal handler: no order, no reset,
\* holdings and trading state unchanged
NoTradeBeforeReady ==
    [][ (IsOnData /\ ~algo'.supertrend.is_ready) =>
          /\ ~Executed(obs')
          /\ obs'.order = "none"
          /\ ~obs'.reset
          /\ ~obs'.buy_signal /\ ~obs'.sell_signal
          /\ portfolio'.quantity = portfolio.quantity
          /\ portfolio'.cash = portfolio.cash
          /\ TradeState(algo') = TradeState(algo)
          /\ algo'.daily_reset_time = algo.daily_reset_time ]_vars

\* the indicator was updated by a bar and is not ready yet
NoTradeBeforeReadyWitness ==
    /\ obs.stage = "not_ready"
    /\ algo.supertrend.bar_count = 1
    /\ algo.supertrend.signal # 0
    /\ ~algo.supertrend.is_ready

\* C17: while a long position is open, from the bar that opened it to the
\* bar that closes it, stop_loss_level does not decrease from one bar to the next
StopNeverRetreats ==
    [][ ( /\ IsOnData
          /\ is_long(portfolio)
          /\ Truthy(algo.stop_loss_level)
          /\ Truthy(algo'.stop_loss_level) )
        => RLeq(algo.stop_loss_level, algo'.stop_loss_level) ]_vars

\* the stop of an open position has been raised: it was below the entry
\* price when the position was opened
StopNeverRetreatsWitness ==
    /\ is_long(portfolio)
    /\ Truthy(algo.entry_price)
    /\ Truthy(algo.stop_loss_level)
    /\ RLt(algo.entry_price, algo.stop_loss_level)
    /\ algo.stop_loss_level = Main_get_current_supertrend(algo.supertrend)

\* C18: on every bar that reaches the strategy while a long position is open
\* and the indicator signal is up, a trend level above the stored
\* stop_loss_level becomes the stop_loss_level by the end of the bar
StopFollowsTrendEveryBar ==
    [][ ( /\ IsStrategyStep
          /\ is_long(portfolio)
          /\ is_long(portfolio')
          /\ Truthy(algo.stop_loss_level)
          /\ algo'.supertrend.signal = 1
          /\ RLt(algo.stop_loss_level, Main_get_current_supertrend(algo'.supertrend)) )
        => algo'.stop_loss_level = Main_get_current_supertrend(algo'.supertrend) ]_vars

\* (close - entry_price) * quantity held, 0 without an entry price
ClosingPnl == IF Truthy(algo.entry_price)
              THEN RMul(RSub(R(portfolio'.price), algo.entry_price),
                        portfolio.quantity)
              ELSE R(0)

\* C19: a sell-transition on a bar that passes the throttle with holdings > 0
\* requests liquidation; if the holdings are lower afterwards the trade is
\* recorded: total_pnl grows by the closing pnl, winning_trades or
\* losing_trades by 1 (winning iff pnl > 0), daily_trade_count and
\* total_trades by 1, and the position fields are cleared
ClosePosition ==
    [][ ( /\ IsOnData
          /\ obs'.stage = "executed"
          /\ obs'.sell_signal
          /\ is_long(portfolio) )
        => /\ obs'.order = "liquidate"
           /\ IF RLt(portfolio'.quantity, portfolio.quantity)
              THEN /\ algo'.total_pnl = RAdd(algo.total_pnl, ClosingPnl)
                   /\ algo'.winning_trades =
                         algo.winning_trades + (IF ClosingPnl[1] > 0 THEN 1 ELSE 0)
                   /\ algo'.losing_trades =
                         algo.losing_trades + (IF ClosingPnl[1] > 0 THEN 0 ELSE 1)
                   /\ algo'.daily_trade_count =
                         (IF obs'.reset THEN 0 ELSE algo.daily_trade_count) + 1
                   /\ algo'.total_trades = algo.total_trades + 1
                   /\ algo'.last_trade_time = <<time'>>
                   /\ algo'.entry_price = None
                   /\ algo'.stop_loss_level = None
                   /\ algo'.position_entry_time = NoneT
                   /\ algo'.position_size = R(0)
              ELSE /\ portfolio'.quantity = portfolio.quantity
                   /\ algo'.total_pnl = algo.total_pnl
                   /\ algo'.winning_trades = algo.winning_trades
                   /\ algo'.losing_trades = algo.losing_trades
                   /\ algo'.total_trades = algo.total_trades
                   /\ algo'.entry_price = algo.entry_price
                   /\ algo'.position_entry_time = algo.position_entry_time ]_vars

\* a position bought at 4 has been closed with a profit
ClosePositionWitness ==
    /\ obs.order = "liquidate"
    /\ obs.fill = "filled"
    /\ portfolio.quantity = R(0)
    /\ algo.winning_trades = 1
    /\ algo.total_pnl[1] > 0
    /\ algo.total_trades = 2
    /\ IsNone(algo.entry_price)

\* (peak - equity) / peak
Drawdown(peak, equity) == RDiv(RSub(peak, equity), peak)

\* C25: every _update_performance_metrics call makes peak_equity the larger
\* of its old value and the equity of the call, and max_drawdown the larger
\* of its old value and (peak_equity - equity) / peak_equity; nothing else
\* changes them.  Starting from peak_equity = initial equity and
\* max_drawdown = 0, peak_equity is the maximum of the initial and all
\* recorded equities and max_drawdown the largest drawdown recorded.
DrawdownTracking ==
    /\ [] ( /\ RLeq(algo.initial_cash, algo.peak_equity)
            /\ RLeq(R(0), algo.max_drawdown)
            /\ Executed(obs) =>
                  /\ RLeq(total_portfolio_value(portfolio), algo.peak_equity)
                  /\ RLeq(Drawdown(algo.peak_equity, total_portfolio_value(portfolio)),
                          algo.max_drawdown) )
    /\ [][ IF IsOnData /\ Executed(obs')
           THEN /\ algo'.peak_equity =
                      RMax(algo.peak_equity, total_portfolio_value(portfolio'))
                /\ algo'.max_drawdown =
                      RMax(algo.max_drawdown,
                           Drawdown(algo'.peak_equity, total_portfolio_value(portfolio')))
           ELSE /\ algo'.peak_equity = algo.peak_equity
                /\ algo'.max_drawdown = algo.max_drawdown ]_vars

\* the equity rose above the initial equity and then fell below the new peak;
\* the last bar's drawdown is smaller than the largest one
DrawdownTrackingWitness ==
    /\ Executed(obs)
    /\ RLt(algo.initial_cash, algo.peak_equity)
    /\ RLt(total_portfolio_value(portfolio), algo.peak_equity)
    /\ RLt(R(0), algo.max_drawdown)

\* the step is an on_data call whose liquidation request did not lower the
\* holdings
IsFailedLiquidation ==
    /\ IsOnData
    /\ obs'.order = "liquidate"
    /\ ~RLt(portfolio'.quantity, portfolio.quantity)

\* the fields a failed liquidation must leave alone, daily_trade_count apart
SellRecord(self) ==
    << self.last_trade_time, self.total_trades, self.winning_trades,
       self.losing_trades, self.total_pnl, self.entry_price,
       self.stop_loss_level, self.position_entry_time >>

\* C29 as stated: a bar whose liquidation request does not lower the holdings
\* leaves daily_trade_count, last_trade_time, total_trades, winning_trades,
\* losing_trades, total_pnl, entry_price, stop_loss_level and
\* position_entry_time unchanged
FailedLiquidationKeepsAll ==
    [][ IsFailedLiquidation =>
          /\ SellRecord(algo') = SellRecord(algo)
          /\ algo'.daily_trade_count = algo.daily_trade_count ]_vars

\* C29 amended: such a bar leaves last_trade_time, total_trades,
\* winning_trades, losing_trades, total_pnl, entry_price, stop_loss_level and
\* position_entry_time unchanged; daily_trade_count is unchanged unless the
\* bar is the first processed bar of a new date, whose daily reset sets it
\* to 0
FailedLiquidationKeepsState ==
    [][ IsFailedLiquidation =>
          /\ SellRecord(algo') = SellRecord(algo)
          /\ algo'.daily_trade_count =
                (IF obs'.reset THEN 0 ELSE algo.daily_trade_count) ]_vars

\* a rejected liquidation on the first bar of a new day, after a buy the day
\* before
FailedLiquidationKeepsStateWitness ==
    /\ obs.order = "liquidate"
    /\ obs.fill \in {"rejected", "no_ticket"}
    /\ obs.reset
    /\ is_long(portfolio)
    /\ algo.total_trades = 1
    /\ algo.daily_trade_count = 0
    /\ Truthy(algo.entry_price)
    /\ Truthy(algo.stop_loss_level)

\* C30: in every state total_trades = winning_trades + losing_trades, and
\* the win rate is winning_trades divided by the number of closed trades
TradesAreClosedTrades ==
    /\ algo.total_trades = algo.winning_trades + algo.losing_trades
    /\ algo.winning_trades + algo.losing_trades > 0 =>
          _get_win_rate(algo) =
             RDiv(R(algo.winning_trades),
                  R(algo.winning_trades + algo.losing_trades))

\* C31: after warm-up every valid bar, whenever it arrives, makes on_data
\* call the indicator's update exactly once, also during a pause and while
\* trading is throttled
IndicatorSeesEveryValidBar ==
    ~is_warming_up =>
        \A bar \in {b \in CtlBars : ~InconsistentOHLC(b)}, dt \in TimeSteps :
           on_data(World, bar, time + dt, FALSE, "filled").self.supertrend.bar_count
              = algo.supertrend.bar_count + 1

\* the step is an on_data call whose buy order opened a long position
IsOpeningBuy ==
    /\ IsOnData
    /\ obs'.order = "buy"
    /\ ~is_long(portfolio)
    /\ is_long(portfolio')

\* C33: when a buy opens a long position, the recorded stop_loss_level is the
\* indicator's trend level of that bar, which is its final lower band, and
\* it is at or below the recorded entry_price, the close of the bar
InitialStopIsActiveBand ==
    [][ IsOpeningBuy =>
          /\ algo'.supertrend.signal = 1
          /\ algo'.stop_loss_level = algo'.supertrend.supertrend
          /\ algo'.stop_loss_level = algo'.supertrend.final_lower_band
          /\ algo'.entry_price = R(portfolio'.price)
          /\ RLeq(algo'.stop_loss_level, algo'.entry_price) ]_vars

\* a long bought at 8 with its stop at a previous, lower band
InitialStopIsActiveBandWitness ==
    /\ obs.order = "buy"
    /\ obs.fill \in {"filled", "partial"}
    /\ is_long(portfolio)
    /\ algo.entry_price = R(8)
    /\ algo.stop_loss_level = algo.supertrend.final_lower_band
    /\ RLt(algo.stop_loss_level, algo.entry_price)

\* C34: at the end of every processed bar entry_price and stop_loss_level
\* are set if and only if the holdings are > 0
TrackedPositionAgrees ==
    Executed(obs) =>
        /\ ~IsNone(algo.entry_price) <=> is_long(portfolio)
        /\ ~IsNone(algo.stop_loss_level) <=> is_long(portfolio)

\* C36: an on_data call requests at most one order, a liquidation only with
\* holdings > 0 and a buy only with holdings <= 0; no other step requests one
OneOrderPerBar ==
    [][ IF IsOnData
        THEN /\ obs'.orders <= 1
             /\ obs'.orders = 0 <=> obs'.order = "none"
             /\ obs'.order = "liquidate" => is_long(portfolio)
             /\ obs'.order = "buy" => ~is_long(portfolio)
        ELSE /\ obs'.orders = obs.orders
             /\ portfolio' = portfolio ]_vars

\* a position has been closed and, two bars later, a new one opened
OneOrderPerBarWitness ==
    /\ obs.order = "buy"
    /\ obs.orders = 1
    /\ obs.fill = "filled"
    /\ is_long(portfolio)
    /\ algo.total_trades = 3

-----------------------------------------------------------------------------
(* calculate_position_size on its own: one call for each choice of entry   *)
(* price, stop price, account equity and risk fraction.                    *)

SizeEntries == { R(-1), R(0), R(1), R(4), R(100) }

SizeStops == { R(-1), R(0), <<5, 2>>, R(95), <<199, 2>>, R(100) }

SizeEquities == { R(-1000), R(0), R(100), R(100000) }

\* the configured risk fraction, and the fraction after one reduction
SizeRisks == { <<1, 50>>, <<2, 125>> }

SizeInit ==
    /\ \E e \in SizeEntries, st \in SizeStops, q \in SizeEquities, r \in SizeRisks :
          feed = [ entry_price    |-> e,
                   stop_price     |-> st,
                   account_equity |-> q,
                   self           |-> [risk_per_trade    |-> r,
                                       max_position_size |-> <<1, 10>>],
                   size           |-> None,
                   sized          |-> FALSE ]
    /\ ind = <<>>
    /\ before = <<>>
    /\ NoStrategy

SizeCall ==
    /\ ~feed.sized
    /\ feed' = [feed EXCEPT
                  !.size = calculate_position_size(feed.self, feed.entry_price,
                               feed.stop_price, feed.account_equity),
                  !.sized = TRUE]
    /\ UNCHANGED <<ind, before, strategy_vars>>

SpecSize == SizeInit /\ [][SizeCall]_vars

\* C11: calculate_position_size never returns a negative quantity, and
\* returns 0 whenever the entry price or the stop price is not positive
SizeNeverNegative ==
    feed.sized =>
        /\ feed.size[1] >= 0
        /\ feed.size[2] > 0
        /\ (RLeq(feed.entry_price, R(0)) \/ RLeq(feed.stop_price, R(0)))
              => feed.size = R(0)

\* a call with a positive entry price and a stop price that is not positive
SizeNeverNegativeWitness ==
    /\ feed.sized
    /\ feed.entry_price[1] > 0
    /\ feed.stop_price[1] <= 0
    /\ feed.account_equity[1] > 0
    /\ feed.size = R(0)

\* min(equity * risk / max(|entry - stop|, entry / 100),
\*     equity * max_position_size / entry), raised to 100 / entry
SizingFormula(self, entry, stop, equity) ==
    RMax(RMin(RDiv(RMul(equity, self.risk_per_trade),
                   RMax(RAbs(RSub(entry, stop)), RMul(<<1, 100>>, entry))),
              RDiv(RMul(equity, self.max_position_size), entry)),
         RDiv(R(100), entry))

ScenarioB ==
    /\ feed.entry_price = R(100)
    /\ feed.stop_price = R(95)
    /\ feed.account_equity = R(100000)
    /\ feed.self.risk_per_trade = <<1, 50>>

\* C12: for positive entry and stop prices calculate_position_size returns
\* the sizing formula; for entry 100, stop 95, equity 100000, risk 0.02 and
\* maximum allocation 0.10 it returns exactly 100
SizingFormulaHolds ==
    (feed.sized /\ feed.entry_price[1] > 0 /\ feed.stop_price[1] > 0) =>
        /\ feed.size = SizingFormula(feed.self, feed.entry_price,
                                     feed.stop_price, feed.account_equity)
        /\ ScenarioB => feed.size = R(100)

SizingFormulaHoldsWitness ==
    /\ feed.sized
    /\ ScenarioB
    /\ feed.size = R(100)

\* C27: for every positive entry and stop price and every equity the
\* returned size times the entry price is at most equity * max_position_size
AllocationCapAbsolute ==
    (feed.sized /\ feed.entry_price[1] > 0 /\ feed.stop_price[1] > 0) =>
        RLeq(RMul(feed.size, feed.entry_price),
             RMul(feed.account_equity, feed.self.max_position_size))

\* C28: with positive prices the size is 0 when the stop price equals the
\* entry price and positive when it differs from it
ZeroStopDistanceNoTrade ==
    (feed.sized /\ feed.entry_price[1] > 0 /\ feed.stop_price[1] > 0) =>
        IF feed.stop_price = feed.entry_price
        THEN feed.size = R(0)
        ELSE feed.size[1] > 0

-----------------------------------------------------------------------------
(* calculate_atr on its own: both copies of the indicator are fed the same
   True Range values *)

AtrPeriods == {1, 2, 3}

AtrTrueRanges == { R(1), R(2), R(4) }

AtrInit ==
    /\ \E p \in AtrPeriods :
          /\ ind = SuperTrendIndicator(p, R(3))
          /\ feed = [ trs      |-> <<>>,     \* the True Range values passed so far
                      atr      |-> None,     \* the value returned by the last call
                      prev     |-> None,     \* the value returned by the call before
                      main     |-> Main_SuperTrendIndicator(p, R(3)),
                      main_atr |-> None ]
    /\ before = <<>>
    /\ NoStrategy

AtrCall ==
    /\ Len(feed.trs) < MaxBars
    /\ \E tr \in AtrTrueRanges :
          /\ ind' = calculate_atr(ind, tr).self
          /\ feed' = [ trs      |-> Append(feed.trs, tr),
                       atr      |-> calculate_atr(ind, tr).atr,
                       prev     |-> feed.atr,
                       main     |-> Main_calculate_atr(feed.main, tr).self,
                       main_atr |-> Main_calculate_atr(feed.main, tr).atr ]
    /\ UNCHANGED <<before, strategy_vars>>

SpecAtr == AtrInit /\ [][AtrCall]_vars

\* the value C20 describes for the last call
WilderAtr ==
    IF Len(feed.trs) <= ind.period
    THEN Mean(feed.trs)
    ELSE RDiv(RAdd(RMul(feed.prev, R(ind.period - 1)), feed.trs[Len(feed.trs)]),
              R(ind.period))

\* C20: calculate_atr returns the plain mean of all True Range values seen so
\* far for each of the first `period` observations, and from observation
\* period + 1 onward (previous ATR * (period - 1) + current TR) / period
WilderAtrSeededByMean ==
    Len(feed.trs) >= 1 =>
        /\ feed.atr = WilderAtr
        /\ feed.main_atr = WilderAtr

-----------------------------------------------------------------------------
(* The constructor on its own, called with any period and multiplier *)

CtorPeriods == 0 .. 7

CtorMultipliers == { R(-1), R(0), <<1, 4>>, R(1), R(2), R(3), <<7, 2>> }

\* the arguments of a constructor call that has not been made yet
CtorInit ==
    /\ \E p \in CtorPeriods, m \in CtorMultipliers :
          feed = [period |-> p, multiplier |-> m, constructed |-> FALSE,
                  raised |-> FALSE]
    /\ ind = <<>>
    /\ before = <<>>
    /\ NoStrategy

\* __init__ stores its arguments and has no raise statement
CtorCall ==
    /\ ~feed.constructed
    /\ ind' = SuperTrendIndicator(feed.period, feed.multiplier)
    /\ feed' = [feed EXCEPT !.constructed = TRUE, !.raised = FALSE]
    /\ UNCHANGED <<before, strategy_vars>>

SpecCtor == CtorInit /\ [][CtorCall]_vars

\* C22: constructing the indicator with period = 0 or with multiplier = 0
\* fails with an error instead of yielding an indicator
ConstructorRejectsZero ==
    (feed.constructed /\ (feed.period = 0 \/ feed.multiplier = R(0))) =>
        /\ feed.raised
        /\ ind = <<>>

-----------------------------------------------------------------------------
(* SuperTrendHistory of the indicator library: the indicator with a record  *)
(* of its bars and of its buy and sell transitions.  In this section ind is *)
(* the SuperTrendHistory object.                                            *)

SuperTrendHistory(period, multiplier, max_history) ==
    [ supertrend_indicator |-> SuperTrendIndicator(period, multiplier),
      max_history          |-> max_history,
      history              |-> <<>>,
      signals_history      |-> <<>> ]

\* SuperTrendHistory.update with timestamp = None
History_update(self, high, low, close) ==
    LET Event(st, type) ==
            [timestamp |-> None, type |-> type, price |-> close,
             supertrend |-> update_return(st)[1]]
        Track(st) ==
            [self EXCEPT
                !.supertrend_indicator = st,
                !.history = DequeAppend(@, [timestamp  |-> None,
                                            high       |-> high,
                                            low        |-> low,
                                            close      |-> close,
                                            supertrend |-> update_return(st)[1],
                                            signal     |-> update_return(st)[2]],
                                        self.max_history),
                !.signals_history =
                    IF is_buy_signal(st)
                    THEN DequeAppend(@, Event(st, "BUY"), self.max_history)
                    ELSE IF is_sell_signal(st)
                         THEN DequeAppend(@, Event(st, "SELL"), self.max_history)
                         ELSE @]
    IN  Track(update(self.supertrend_indicator, high, low, close))

History_reset(self) ==
    [self EXCEPT !.supertrend_indicator = reset(@),
                 !.history = <<>>,
                 !.signals_history = <<>>]

HistMultipliers == { <<1, 4>> }

HistMaxHistory == {2, 8}

HistInit ==
    /\ \E p \in Periods, m \in HistMultipliers, h \in HistMaxHistory :
          ind = SuperTrendHistory(p, m, h)
    /\ before = <<>>
    /\ feed = <<>>
    /\ NoStrategy

HistUpdate ==
    /\ ind.supertrend_indicator.bar_count < MaxBars
    /\ \E b \in IndBars : ind' = History_update(ind, R(b[1]), R(b[2]), R(b[3]))
    /\ UNCHANGED <<before, feed, strategy_vars>>

HistReset ==
    /\ ind' = History_reset(ind)
    /\ UNCHANGED <<before, feed, strategy_vars>>

HistNext == HistUpdate \/ HistReset

SpecHist == HistInit /\ [][HistNext]_vars

\* C35: two adjacent events of signals_history never have the same type, and
\* an update records at most one event
SignalsAlternate ==
    /\ [] \A i \in 1 .. Len(ind.signals_history) - 1 :
             ind.signals_history[i].type # ind.signals_history[i + 1].type
    /\ [][ ind'.supertrend_indicator.bar_count = ind.supertrend_indicator.bar_count + 1
           => \/ ind'.signals_history = ind.signals_history
              \/ \E type \in {"BUY", "SELL"} :
                    ind'.signals_history =
                       DequeAppend(ind.signals_history,
                                   [timestamp  |-> None,
                                    type       |-> type,
                                    price      |-> ind'.supertrend_indicator.prev_close,
                                    supertrend |-> ind'.supertrend_indicator.supertrend],
                                   ind.max_history) ]_vars

\* a buy, a sell and a buy have been recorded
SignalsAlternateWitness ==
    /\ Len(ind.signals_history) >= 3
    /\ ind.signals_history[1].type = "BUY"
    /\ ind.signals_history[2].type = "SELL"
    /\ ind.signals_history[3].type = "BUY"

-----------------------------------------------------------------------------
(* The library indicator and the copy embedded in the strategy file, built  *)
(* with the same parameters and fed the same bars.  In this section ind is  *)
(* the library indicator and feed.main the embedded one.                    *)

TwinInit ==
    /\ \E p \in Periods, m \in Multipliers :
          /\ ind = SuperTrendIndicator(p, m)
          /\ feed = [main |-> Main_SuperTrendIndicator(p, m)]
    /\ before = <<>>
    /\ NoStrategy

TwinUpdate ==
    /\ ind.bar_count < MaxBars
    /\ \E b \in IndBars :
          /\ ind' = update(ind, R(b[1]), R(b[2]), R(b[3]))
          /\ feed' = [main |-> Main_update(feed.main, R(b[1]), R(b[2]), R(b[3]))]
    /\ UNCHANGED <<before, strategy_vars>>

SpecTwin == TwinInit /\ [][TwinUpdate]_vars

\* C37: after each update the two copies have the same trend level, signal,
\* prev_signal and is_ready and report the same buy and sell transitions
CopiesAgree ==
    /\ feed.main.bar_count = ind.bar_count
    /\ feed.main.supertrend = ind.supertrend
    /\ feed.main.signal = ind.signal
    /\ feed.main.prev_signal = ind.prev_signal
    /\ feed.main.is_ready = ind.is_ready
    /\ Main_get_current_supertrend(feed.main) = get_current_supertrend(ind)
    /\ Main_is_buy_signal(feed.main) = is_buy_signal(ind)
    /\ Main_is_sell_signal(feed.main) = is_sell_signal(ind)

\* both copies report a sell transition after a close on the upper band
CopiesAgreeWitness ==
    /\ ind.bar_count >= 3
    /\ is_sell_signal(ind)
    /\ Main_is_sell_signal(feed.main)
    /\ ind.prev_close = ind.final_upper_band
    /\ feed.main.supertrend = ind.supertrend

====
